---- MODULE Spec2Model ----
(***************************************************************************)
(* Model of src/program-rust/src/lib.rs: the on-chain program whose single *)
(* entrypoint process_instruction parses a JSON payload into CandidateData, *)
(* checks the account's owner, Borsh-decodes the account data into a        *)
(* CandidateAccount, overwrites its fields and Borsh-encodes it back into   *)
(* the account data in place.                                               *)
(*                                                                          *)
(* Bytes are integers 0..255, byte strings are sequences of bytes.  u32     *)
(* values of the model stay below 2^31 (TLC's integer range); a             *)
(* JSON number above u32::MAX is recognised on its digits.                  *)
(***************************************************************************)
EXTENDS Integers, Sequences, FiniteSets, TLC

VARIABLES data, owner, result, log, steps, candidate, call

vars == <<data, owner, result, log, steps, candidate, call>>

----------------------------------------------------------------------------
(* Bounds of the model *)

\* longest first_name / last_name / qualification carried by a payload
MaxStrLen == 1

\* largest account data length, as bytes above the shortest encoded record
MaxExtra == 2

----------------------------------------------------------------------------
(* Bytes and u32 *)

U32Bytes == 4

Min(a, b) == IF a < b THEN a ELSE b

\* F applied to v: names an intermediate value (a `let` of the source)
With(v, F(_)) == F(v)

\* u32::to_le_bytes
to_le_bytes(n) ==
  << n % 256, (n \div 256) % 256, (n \div 65536) % 256, (n \div 16777216) % 256 >>

\* u32::from_le_bytes
from_le_bytes(b) == b[1] + 256 * b[2] + 65536 * b[3] + 16777216 * b[4]

Slice(s, from, to) == [k \in 1..(to - from + 1) |-> s[from + k - 1]]

----------------------------------------------------------------------------
(* std::str::from_utf8: validity of a byte string as UTF-8 *)

IsCont(s, i) == i <= Len(s) /\ s[i] >= 128 /\ s[i] <= 191

InRange(s, i, lo, hi) == i <= Len(s) /\ s[i] >= lo /\ s[i] <= hi

RECURSIVE Utf8From(_, _)
Utf8From(s, i) ==
  IF i > Len(s) THEN TRUE
  ELSE LET b == s[i] IN
    IF b < 128 THEN Utf8From(s, i + 1)
    ELSE IF b >= 194 /\ b <= 223 THEN IsCont(s, i + 1) /\ Utf8From(s, i + 2)
    ELSE IF b = 224 THEN InRange(s, i + 1, 160, 191) /\ IsCont(s, i + 2) /\ Utf8From(s, i + 3)
    ELSE IF b = 237 THEN InRange(s, i + 1, 128, 159) /\ IsCont(s, i + 2) /\ Utf8From(s, i + 3)
    ELSE IF b >= 225 /\ b <= 239 THEN IsCont(s, i + 1) /\ IsCont(s, i + 2) /\ Utf8From(s, i + 3)
    ELSE IF b = 240 THEN InRange(s, i + 1, 144, 191) /\ IsCont(s, i + 2) /\ IsCont(s, i + 3) /\ Utf8From(s, i + 4)
    ELSE IF b = 244 THEN InRange(s, i + 1, 128, 143) /\ IsCont(s, i + 2) /\ IsCont(s, i + 3) /\ Utf8From(s, i + 4)
    ELSE IF b >= 241 /\ b <= 243 THEN IsCont(s, i + 1) /\ IsCont(s, i + 2) /\ IsCont(s, i + 3) /\ Utf8From(s, i + 4)
    ELSE FALSE

from_utf8(bytes) == Utf8From(bytes, 1)

----------------------------------------------------------------------------
(* The Borsh codec of CandidateAccount (derive at lib.rs:13):              *)
(* age, experience as 4 little-endian bytes each; first_name, last_name,   *)
(* qualification each as a u32 length followed by the UTF-8 bytes.         *)

CandidateAccount(a, e, f, l, q) ==
  [age |-> a, experience |-> e, first_name |-> f, last_name |-> l, qualification |-> q]

\* <&mut [u8] as Write>::write_all: copies what fits, fails unless all fitted
write_all(w, bytes) ==
  IF ~w.ok THEN w
  ELSE LET n == Min(Len(bytes), Len(w.buf) - w.pos) IN
    [buf |-> [k \in 1..Len(w.buf) |->
                IF k > w.pos /\ k <= w.pos + n THEN bytes[k - w.pos] ELSE w.buf[k]],
     pos |-> w.pos + n,
     ok  |-> n = Len(bytes)]

\* <String as BorshSerialize>::serialize
serialize_string(w, s) == write_all(write_all(w, to_le_bytes(Len(s))), s)

\* CandidateAccount::serialize into the account data, from offset 0
serialize(c, buf) ==
  LET w0 == [buf |-> buf, pos |-> 0, ok |-> TRUE]
      w1 == write_all(w0, to_le_bytes(c.age))
      w2 == write_all(w1, to_le_bytes(c.experience))
      w3 == serialize_string(w2, c.first_name)
      w4 == serialize_string(w3, c.last_name)
  IN  serialize_string(w4, c.qualification)

\* <u32 as BorshDeserialize>::deserialize at offset pos (0-based)
deserialize_u32(buf, pos) ==
  IF Len(buf) - pos < U32Bytes THEN [ok |-> FALSE]
  ELSE [ok |-> TRUE, val |-> from_le_bytes(Slice(buf, pos + 1, pos + U32Bytes)),
        pos |-> pos + U32Bytes]

\* <String as BorshDeserialize>::deserialize at offset pos
deserialize_string(buf, pos) ==
  LET n == deserialize_u32(buf, pos) IN
  IF ~n.ok THEN [ok |-> FALSE]
  ELSE IF Len(buf) - n.pos < n.val THEN [ok |-> FALSE]
  ELSE LET s == Slice(buf, n.pos + 1, n.pos + n.val) IN
    IF ~from_utf8(s) THEN [ok |-> FALSE]
    ELSE [ok |-> TRUE, val |-> s, pos |-> n.pos + n.val]

\* CandidateAccount::deserialize: the fields in declaration order
deserialize(buf) ==
  LET a == deserialize_u32(buf, 0) IN
  IF ~a.ok THEN [ok |-> FALSE] ELSE
  LET e == deserialize_u32(buf, a.pos) IN
  IF ~e.ok THEN [ok |-> FALSE] ELSE
  LET f == deserialize_string(buf, e.pos) IN
  IF ~f.ok THEN [ok |-> FALSE] ELSE
  LET l == deserialize_string(buf, f.pos) IN
  IF ~l.ok THEN [ok |-> FALSE] ELSE
  LET q == deserialize_string(buf, l.pos) IN
  IF ~q.ok THEN [ok |-> FALSE]
  ELSE [ok |-> TRUE, val |-> CandidateAccount(a.val, e.val, f.val, l.val, q.val),
        pos |-> q.pos]

\* Mutant: the decoder also demands that the record fills the whole buffer
\* (CandidateAccount::try_from_slice, the call commented out at lib.rs:72)
try_from_slice(buf) ==
  LET d == deserialize(buf) IN
  IF d.ok /\ d.pos # Len(buf) THEN [ok |-> FALSE] ELSE d

\* solana_program::borsh::try_from_slice_unchecked: decodes a prefix of the
\* buffer and ignores the bytes after it
try_from_slice_unchecked(buf) == deserialize(buf)

\* length of the Borsh encoding of c
SerializedLen(c) ==
  2 * U32Bytes + 3 * U32Bytes + Len(c.first_name) + Len(c.last_name) + Len(c.qualification)

----------------------------------------------------------------------------
(* The payload: JSON text of a CandidateData (derive at lib.rs:22).        *)
(* serde_json::from_str is modelled on the payloads of the model: an       *)
(* object whose keys are strings and whose values are unsigned integer     *)
(* literals or strings (simple backslash escapes included).                *)

Ch == [lbrace |-> 123, rbrace |-> 125, quote |-> 34, colon |-> 58, comma |-> 44,
       backslash |-> 92, zero |-> 48, nine |-> 57, dot |-> 46, e |-> 101, E |-> 69,
       space |-> 32, tab |-> 9, lf |-> 10, cr |-> 13]

\* the field names of CandidateData as ASCII
Key == [age           |-> <<97, 103, 101>>,
        experience    |-> <<101, 120, 112, 101, 114, 105, 101, 110, 99, 101>>,
        first_name    |-> <<102, 105, 114, 115, 116, 95, 110, 97, 109, 101>>,
        last_name     |-> <<108, 97, 115, 116, 95, 110, 97, 109, 101>>,
        qualification |-> <<113, 117, 97, 108, 105, 102, 105, 99, 97, 116, 105, 111, 110>>]

FieldNames == {"age", "experience", "first_name", "last_name", "qualification"}

\* u32::MAX = 4294967295 as decimal digits
U32MaxDigits == <<4, 2, 9, 4, 9, 6, 7, 2, 9, 5>>

Fail == [ok |-> FALSE]

IsWs(c) == c \in {Ch.space, Ch.tab, Ch.lf, Ch.cr}

IsDigit(c) == c >= Ch.zero /\ c <= Ch.nine

RECURSIVE SkipWs(_, _)
SkipWs(s, i) == IF i <= Len(s) /\ IsWs(s[i]) THEN SkipWs(s, i + 1) ELSE i

\* the character a simple escape \c stands for (0: not a simple escape)
Unescape(c) ==
  IF c \in {Ch.quote, Ch.backslash, 47} THEN c
  ELSE IF c = 98 THEN 8 ELSE IF c = 102 THEN 12 ELSE IF c = 110 THEN 10
  ELSE IF c = 114 THEN 13 ELSE IF c = 116 THEN 9 ELSE 0

\* the rest of a string literal, s[i] being the first byte after the opening quote
RECURSIVE ParseStrFrom(_, _, _)
ParseStrFrom(s, i, acc) ==
  IF i > Len(s) THEN Fail
  ELSE IF s[i] = Ch.quote THEN [ok |-> TRUE, val |-> acc, next |-> i + 1]
  ELSE IF s[i] = Ch.backslash THEN
    IF i + 1 > Len(s) \/ Unescape(s[i + 1]) = 0 THEN Fail
    ELSE ParseStrFrom(s, i + 2, Append(acc, Unescape(s[i + 1])))
  ELSE IF s[i] < Ch.space THEN Fail
  ELSE ParseStrFrom(s, i + 1, Append(acc, s[i]))

\* a String value: a string literal, anything else is an invalid type
ParseString(s, i) ==
  IF i > Len(s) \/ s[i] # Ch.quote THEN Fail ELSE ParseStrFrom(s, i + 1, <<>>)

RECURSIVE DigitsEnd(_, _)
DigitsEnd(s, i) == IF i <= Len(s) /\ IsDigit(s[i]) THEN DigitsEnd(s, i + 1) ELSE i

RECURSIVE DigitsLeq(_, _, _)
\* a <= b for digit strings of equal length, from position k
DigitsLeq(a, b, k) ==
  IF k > Len(a) THEN TRUE
  ELSE IF a[k] < b[k] THEN TRUE
  ELSE IF a[k] > b[k] THEN FALSE
  ELSE DigitsLeq(a, b, k + 1)

RECURSIVE DigitsValue(_, _)
DigitsValue(d, k) == IF k = 0 THEN 0 ELSE 10 * DigitsValue(d, k - 1) + d[k]

\* a u32 value: an unsigned integer literal without leading zero, fraction or
\* exponent, at most u32::MAX; anything else is an error
ParseU32(s, i) ==
  IF i > Len(s) \/ ~IsDigit(s[i]) THEN Fail
  ELSE LET j == DigitsEnd(s, i)
           d == [k \in 1..(j - i) |-> s[i + k - 1] - Ch.zero]
       IN
    IF s[i] = Ch.zero /\ j - i > 1 THEN Fail
    ELSE IF j <= Len(s) /\ s[j] \in {Ch.dot, Ch.e, Ch.E} THEN Fail
    ELSE IF Len(d) > Len(U32MaxDigits) THEN Fail
    ELSE IF Len(d) = Len(U32MaxDigits) /\ ~DigitsLeq(d, U32MaxDigits, 1) THEN Fail
    ELSE [ok |-> TRUE, val |-> DigitsValue(d, Len(d)), next |-> j]

\* the value of a key that is no field of CandidateData is skipped
IgnoreValue(s, i) ==
  IF i > Len(s) THEN Fail
  ELSE IF s[i] = Ch.quote THEN ParseString(s, i)
  ELSE IF IsDigit(s[i]) THEN
    LET j == DigitsEnd(s, i) IN
    IF s[i] = Ch.zero /\ j - i > 1 THEN Fail ELSE [ok |-> TRUE, val |-> 0, next |-> j]
  ELSE Fail

FieldOf(k) ==
  IF \E f \in FieldNames : Key[f] = k THEN CHOOSE f \in FieldNames : Key[f] = k ELSE "?"

\* the value of the member whose key is the field f ("?": no field)
ParseValue(s, i, f) ==
  IF f \in {"age", "experience"} THEN ParseU32(s, i)
  ELSE IF f = "?" THEN IgnoreValue(s, i)
  ELSE ParseString(s, i)

Put(acc, f, val) == IF f = "?" THEN acc ELSE (f :> val) @@ acc

\* the members of an object, s[i] being where a key must start
RECURSIVE Members(_, _, _)
Members(s, i, acc) ==
  With(ParseString(s, i), LAMBDA k :
    IF ~k.ok THEN Fail ELSE
    With(SkipWs(s, k.next), LAMBDA c :
      IF c > Len(s) \/ s[c] # Ch.colon THEN Fail ELSE
      With(FieldOf(k.val), LAMBDA f :
        With(ParseValue(s, SkipWs(s, c + 1), f), LAMBDA v :
          IF f \in DOMAIN acc \/ ~v.ok THEN Fail ELSE
          With(SkipWs(s, v.next), LAMBDA n :
            IF n > Len(s) THEN Fail
            ELSE IF s[n] = Ch.comma
              THEN Members(s, SkipWs(s, n + 1), Put(acc, f, v.val))
            ELSE IF s[n] = Ch.rbrace
              THEN [ok |-> TRUE, val |-> Put(acc, f, v.val), next |-> n + 1]
            ELSE Fail)))))

\* the object's members, s[j] being the first byte after the opening brace
Object0(s, j) ==
  IF j <= Len(s) /\ s[j] = Ch.rbrace
  THEN [ok |-> TRUE, val |-> <<>>, next |-> j + 1]
  ELSE Members(s, j, <<>>)

\* serde_json::from_str::<CandidateData>: every field exactly once, nothing
\* after the closing brace but whitespace
from_str(s) ==
  With(SkipWs(s, 1), LAMBDA i :
    IF i > Len(s) \/ s[i] # Ch.lbrace THEN Fail ELSE
    With(Object0(s, SkipWs(s, i + 1)), LAMBDA m :
      IF ~m.ok THEN Fail
      ELSE IF DOMAIN m.val # FieldNames THEN Fail
      ELSE IF SkipWs(s, m.next) <= Len(s) THEN Fail
      ELSE [ok |-> TRUE,
            val |-> [f \in FieldNames |-> m.val[f]]]))

----------------------------------------------------------------------------
(* Inputs of the model *)

Pubkeys == {"P", "Q"}

\* u32 values carried by payloads: one byte and two bytes wide
Nums == {1, 258}

\* names are ASCII strings over "A"
Names == UNION {[1..k -> {65}] : k \in 0..MaxStrLen}

\* every CandidateData a well-formed payload of the model carries
Docs ==
  {CandidateAccount(a, e, f, l, q) : a \in Nums, e \in Nums, f \in Names, l \in Names, q \in Names}

ZeroRecord == CandidateAccount(0, 0, <<>>, <<>>, <<>>)

\* account data lengths: one byte short of the shortest record, up to MaxExtra above it
Caps == (SerializedLen(ZeroRecord) - 1)..(SerializedLen(ZeroRecord) + MaxExtra)

Fill(n, b) == [k \in 1..n |-> b]

RECURSIVE Decimal(_)
Decimal(n) == IF n < 10 THEN <<Ch.zero + n>> ELSE Append(Decimal(n \div 10), Ch.zero + (n % 10))

Quoted(s) == <<Ch.quote>> \o s \o <<Ch.quote>>

Member(k, v) == Quoted(k) \o <<Ch.colon>> \o v

RECURSIVE Joined(_)
Joined(ms) ==
  IF Len(ms) = 0 THEN <<>>
  ELSE IF Len(ms) = 1 THEN ms[1]
  ELSE ms[1] \o <<Ch.comma>> \o Joined(Tail(ms))

Object(ms) == <<Ch.lbrace>> \o Joined(ms) \o <<Ch.rbrace>>

MembersOf(d) ==
  << Member(Key.age, Decimal(d.age)), Member(Key.experience, Decimal(d.experience)),
     Member(Key.first_name, Quoted(d.first_name)), Member(Key.last_name, Quoted(d.last_name)),
     Member(Key.qualification, Quoted(d.qualification)) >>

\* {"age":A,"experience":E,"first_name":"F","last_name":"L","qualification":"Q"}
Render(d) == Object(MembersOf(d))

\* the same document with the fields in another order, an unknown key and whitespace
RenderLoose(d) ==
  LET m == MembersOf(d) IN
  <<Ch.space>> \o Object(<<m[5], m[3], Member(<<120>>, Decimal(7)), m[1], m[4], m[2]>>) \o <<Ch.lf>>

\* the documents also sent in the loose layout
LooseDocs == {d \in Docs : d.age < d.experience}

WellFormedPayloads == {Render(d) : d \in Docs} \cup {RenderLoose(d) : d \in LooseDocs}

\* the document a well-formed payload was written from
DocOf ==
  [p \in WellFormedPayloads |->
     CHOOSE d \in Docs : p = Render(d) \/ (d \in LooseDocs /\ p = RenderLoose(d))]

SomeDoc == CandidateAccount(258, 1, Fill(MaxStrLen, 65), <<>>, <<>>)

\* valid UTF-8 that is no CandidateData document
MalformedPayloads ==
  LET m == MembersOf(SomeDoc) IN
  { <<110, 111, 116, 32, 106, 115, 111, 110>>,                      \* not json
    Object(<<>>),                                                   \* {}
    Object(<<m[1], m[2], m[3], m[4]>>),                             \* qualification missing
    Object(<<Member(Key.age, Quoted(<<120>>)), m[2], m[3], m[4], m[5]>>),   \* "age":"x"
    Object(<<Member(Key.age, <<45, 49>>), m[2], m[3], m[4], m[5]>>),        \* "age":-1
    Object(<<Member(Key.age, <<52, 50, 57, 52, 57, 54, 55, 50, 57, 54>>),
             m[2], m[3], m[4], m[5]>>),                             \* "age":4294967296
    Object(<<m[1], m[2], Member(Key.first_name, Decimal(7)), m[4], m[5]>>), \* "first_name":7
    Object(<<m[1], m[1], m[2], m[3], m[4], m[5]>>),                 \* age twice
    Render(SomeDoc) \o <<120>> }                                    \* trailing text

\* byte strings that are not UTF-8
NonUtf8Payloads ==
  LET m == MembersOf(SomeDoc) IN
  { <<255>>,
    <<Ch.lbrace, 195>>,
    Object(<<m[1], m[2], Member(Key.first_name, Quoted(<<192, 128>>)), m[4], m[5]>>) }

Payloads == WellFormedPayloads \cup MalformedPayloads \cup NonUtf8Payloads

----------------------------------------------------------------------------
(* process_instruction, lib.rs:43-83 *)

NoCandidate == [none |-> TRUE]

\* Mutant: the owner check is left out
IncorrectProgramIdNever(account_owner, program_id) == FALSE

\* lib.rs:66: the account must be owned by the program
IncorrectProgramId(account_owner, program_id) == account_owner # program_id

\* Mutant: last_name is not taken from the payload
AssignKeepsLastName(c, json) ==
  [c EXCEPT !.age = json.age,
            !.experience = json.experience,
            !.first_name = json.first_name,
            !.qualification = json.qualification]

\* Mutant: age is incremented instead of taken from the payload
AssignIncrementsAge(c, json) ==
  [c EXCEPT !.age = c.age + 1,
            !.experience = json.experience,
            !.first_name = json.first_name,
            !.last_name = json.last_name,
            !.qualification = json.qualification]

\* lib.rs:76-80: every field of the decoded record is overwritten from the payload
Assign(c, json) ==
  [c EXCEPT !.age = json.age,
            !.experience = json.experience,
            !.first_name = json.first_name,
            !.last_name = json.last_name,
            !.qualification = json.qualification]

Outcome(r, d, l, st, c) ==
  [result |-> r, data |-> d, log |-> l, steps |-> st, candidate |-> c]

\* from_utf8 and from_str of every payload of the model, computed once
Parsed ==
  [p \in Payloads |->
     IF from_utf8(p) THEN [utf8 |-> TRUE, json |-> from_str(p)]
     ELSE [utf8 |-> FALSE, json |-> Fail]]

\* lib.rs:73-82: decode the account data, overwrite the fields, encode in place
Update(json, l, account_data) ==
  With(try_from_slice_unchecked(account_data), LAMBDA dec :
    IF ~dec.ok
    THEN Outcome("BorshIoError", account_data, l,
                 <<"from_utf8", "from_str", "msg", "next_account_info", "owner",
                   "try_from_slice_unchecked">>, NoCandidate)
    ELSE With(Assign(dec.val, json), LAMBDA c :
      With(serialize(c, account_data), LAMBDA w :
        Outcome(IF w.ok THEN "Ok" ELSE "BorshIoError", w.buf, l,
                <<"from_utf8", "from_str", "msg", "next_account_info", "owner",
                  "try_from_slice_unchecked", "assign", "serialize">>, c))))

\* lib.rs:55-82: what follows the parsing of the payload
Handle(program_id, accounts, json, account_data, account_owner) ==
  With(<<json.first_name>>, LAMBDA l :
    IF Len(accounts) = 0
    THEN Outcome("NotEnoughAccountKeys", account_data, l,
                 <<"from_utf8", "from_str", "msg", "next_account_info">>, NoCandidate)
    ELSE IF IncorrectProgramId(account_owner, program_id)
    THEN Outcome("IncorrectProgramId", account_data, l,
                 <<"from_utf8", "from_str", "msg", "next_account_info", "owner">>,
                 NoCandidate)
    ELSE Update(json, l, account_data))

\* what one run does to the first account's data, what it returns and logs,
\* and the steps it takes in order
Run(program_id, accounts, instruction_data, account_data, account_owner) ==
  With(Parsed[instruction_data], LAMBDA p :
    IF ~p.utf8
    THEN Outcome("PanicInvalidUtf8", account_data, <<>>, <<"from_utf8">>, NoCandidate)
    ELSE IF ~p.json.ok
    THEN Outcome("PanicFromStr", account_data, <<>>, <<"from_utf8", "from_str">>,
                 NoCandidate)
    ELSE Handle(program_id, accounts, p.json.val, account_data, account_owner))

\* one invocation, run to completion (no invocation of the account is pending)
process_instruction(program_id, accounts, instruction_data) ==
  /\ result = "None"
  /\ \E o \in {Run(program_id, accounts, instruction_data, data, owner)} :
       /\ data' = o.data
       /\ result' = o.result
       /\ log' = o.log
       /\ steps' = o.steps
       /\ candidate' = o.candidate
  /\ call' = [program_id |-> program_id, accounts |-> accounts,
              instruction_data |-> instruction_data, pre |-> data]
  /\ UNCHANGED owner

NoCall == [program_id |-> "-", accounts |-> <<>>, instruction_data |-> <<>>, pre |-> <<>>]

\* the runtime hands the program a zero-filled account of some length, owned by P
Init ==
  /\ data \in {Fill(n, 0) : n \in Caps}
  /\ owner = "P"
  /\ result = "None"
  /\ log = <<>>
  /\ steps = <<>>
  /\ candidate = NoCandidate
  /\ call = NoCall

\* the runtime takes the result; the locals of the invocation are gone and
\* the account data stays as the invocation left it
Return ==
  /\ result # "None"
  /\ result' = "None"
  /\ log' = <<>>
  /\ steps' = <<>>
  /\ candidate' = NoCandidate
  /\ call' = NoCall
  /\ UNCHANGED <<data, owner>>

Next ==
  \/ \E program_id \in Pubkeys, accounts \in {<<>>, <<"account">>}, instruction_data \in Payloads :
       process_instruction(program_id, accounts, instruction_data)
  \/ Return

Spec == Init /\ [][Next]_vars

----------------------------------------------------------------------------
(* The codec on its own: any record encoded over any previous content *)

\* candidate.serialize(&mut &mut account.data.borrow_mut()[..]), lib.rs:81
Encode(c) ==
  /\ \E w \in {serialize(c, data)} :
       /\ data' = w.buf
       /\ result' = IF w.ok THEN "Ok" ELSE "BorshIoError"
  /\ candidate' = c
  /\ steps' = <<"serialize">>
  /\ call' = NoCall
  /\ UNCHANGED <<owner, log>>

CodecInit ==
  /\ data \in {Fill(n, b) : n \in Caps, b \in {0, 65, 127}}
  /\ owner = "P"
  /\ result = "None"
  /\ log = <<>>
  /\ steps = <<>>
  /\ candidate = NoCandidate
  /\ call = NoCall

CodecNext == \E c \in Docs \cup {ZeroRecord} : Encode(c)

CodecSpec == CodecInit /\ [][CodecNext]_vars

----------------------------------------------------------------------------
(* Properties *)

Called == result # "None"

WithAccount == Called /\ Len(call.accounts) > 0

WellFormedCall == Called /\ call.instruction_data \in WellFormedPayloads

\* the values process_instruction returns as Err(ProgramError)
ErrValues == {"NotEnoughAccountKeys", "IncorrectProgramId", "BorshIoError"}

Decoded(buf) == try_from_slice_unchecked(buf)

\* the Borsh encoding of c, written into a buffer of exactly its length
Encoding(c) == serialize(c, Fill(SerializedLen(c), 0)).buf

Encodings == {Encoding(c) : c \in Docs \cup {ZeroRecord}}

\* buf is zero-filled, or starts with the complete encoding of a record
HoldsRecord(buf) ==
  \/ buf = Fill(Len(buf), 0)
  \/ \E n \in SerializedLen(ZeroRecord)..Len(buf) : Slice(buf, 1, n) \in Encodings

\* C1: an invocation with a well-formed payload whose program id differs
\* from the account's owner returns IncorrectProgramId and leaves every
\* byte of the account data as it was before the call.
C1_OwnershipGate ==
  (WithAccount /\ WellFormedCall /\ call.program_id # owner)
    => (result = "IncorrectProgramId" /\ data = call.pre)

\* C1 witness: a refused invocation on an account that already holds a record
C1_Witness ==
  /\ WithAccount /\ WellFormedCall /\ call.program_id # owner
  /\ call.pre # Fill(Len(call.pre), 0)
  /\ result = "IncorrectProgramId"

\* C2: when an authorised invocation with a well-formed payload produces a
\* record longer than the account data, an error is returned and the account
\* data is byte for byte what it was before the call.
C2_CapacityGuard ==
  (WithAccount /\ WellFormedCall /\ call.program_id = owner /\ Decoded(call.pre).ok
     /\ SerializedLen(DocOf[call.instruction_data]) > Len(call.pre))
    => (result \in ErrValues /\ data = call.pre)

\* C3: a payload that is valid UTF-8 but no well-formed document makes
\* process_instruction return an error value (no panic) and leaves the
\* account data unchanged.
C3_MalformedReturnsError ==
  (Called /\ call.instruction_data \in MalformedPayloads)
    => (result \in ErrValues /\ data = call.pre)

\* C4: a payload that is not valid UTF-8 makes process_instruction return
\* an error value rather than abort the invocation.
C4_NonUtf8ReturnsError ==
  (Called /\ call.instruction_data \in NonUtf8Payloads) => result \in ErrValues

\* C5: after every successful invocation the stored age equals the age
\* stored before the call plus exactly 1, whatever the payload.
C5_AgeIncrements ==
  (result = "Ok") => Decoded(data).val.age = Decoded(call.pre).val.age + 1

C7_RoundTrip ==
  (steps = <<"serialize">> /\ SerializedLen(candidate) <= Len(data))
    => /\ result = "Ok"
       /\ Decoded(data) = [ok |-> TRUE, val |-> candidate, pos |-> SerializedLen(candidate)]

\* C7 witness: a record encoded over stale bytes that remain after its end
C7_Witness ==
  /\ steps = <<"serialize">>
  /\ result = "Ok"
  /\ SerializedLen(candidate) < Len(data)
  /\ data[Len(data)] # 0

\* C8: the owner check is the first step: an invocation whose program id
\* differs from the account's owner returns IncorrectProgramId whatever the
\* payload is, and logs nothing.
C8_OwnerCheckFirst ==
  (WithAccount /\ call.program_id # owner)
    => (result = "IncorrectProgramId" /\ log = <<>> /\ steps[1] = "owner")

\* C9: after any sequence of invocations the account data (long enough for
\* the empty record) still decodes to a record.
C9_StaysDecodable ==
  Len(data) >= SerializedLen(ZeroRecord) => Decoded(data).ok

====
